---- MODULE Spec2Model ----
(***************************************************************************)
(* Substitution-only approximate search (fuzzysearch/susbstitutions_only). *)
(* Sequences are TLA+ sequences; the source's 0-based indices are kept and *)
(* translated at every access (element i of the source is seq[i + 1]).     *)
(***************************************************************************)
EXTENDS Integers, Sequences, FiniteSets, TLC

\* ------------------------------------------------------------------ bounds
MaxSubLen == 5
MaxSeqLen == 5
MaxK == 1
MaxNeg == 1
LongMaxSubLen == 6
LongMaxSeqLen == 6
LpMaxSubLen == 4
LpMaxSeqLen == 6

Alphabet == {"a", "b"}

SeqsUpTo(n) == UNION {[1..m -> Alphabet] : m \in 0..n}

\* ------------------------------------------------- Python built-in helpers
Min2(a, b) == IF a < b THEN a ELSE b
Max2(a, b) == IF a > b THEN a ELSE b

\* Python's a // b (floor division) for b # 0
PyFloorDiv(a, b) == IF b > 0 THEN a \div b ELSE (0 - a) \div (0 - b)

\* Python's s[lo:hi]: negative bounds count from the end, then both are clamped
PySliceBound(n, x) == IF x < 0 THEN Max2(n + x, 0) ELSE Min2(x, n)

PySlice(s, lo, hi) ==
    LET l == PySliceBound(Len(s), lo)
        h == PySliceBound(Len(s), hi)
    IN  IF l >= h THEN <<>> ELSE [k \in 1..(h - l) |-> s[l + k]]

\* list(range(start, stop, step)) for step # 0
PyRange(start, stop, step) ==
    LET n == IF step > 0
             THEN (IF stop > start THEN ((stop - start - 1) \div step) + 1 ELSE 0)
             ELSE (IF stop < start THEN ((start - stop - 1) \div (0 - step)) + 1 ELSE 0)
    IN  [k \in 1..n |-> start + (k - 1) * step]

\* sum((a != b) for (a, b) in zip(x, y)): zip stops at the shorter argument
ZipMismatches(x, y) ==
    Cardinality({k \in 1..Min2(Len(x), Len(y)) : x[k] # y[k]})

\* ------------------------------------------------------ fuzzysearch.common
Match(start, end, dist) == [start |-> start, end |-> end, dist |-> dist]

\* The exact-search primitive, from its interface description (its code is
\* in fuzzysearch.common): every index i, ascending, with
\* sequence[i : i + len(fragment)] == fragment, start <= i and
\* i + len(fragment) <= end.
RECURSIVE search_exact_from(_, _, _, _)
search_exact_from(fragment, sequence, i, end) ==
    IF i + Len(fragment) > end \/ i + Len(fragment) > Len(sequence)
    THEN <<>>
    ELSE (IF \A k \in 1..Len(fragment) : sequence[i + k] = fragment[k]
          THEN <<i>> ELSE <<>>)
         \o search_exact_from(fragment, sequence, i + 1, end)

search_exact(fragment, sequence, start, end) ==
    search_exact_from(fragment, sequence, Max2(start, 0), end)

\* ------------------------------------------------------------- outcomes
Returned(v) == [status |-> "returned", value |-> v, error |-> "none"]
Raised(e) == [status |-> "raised", value |-> <<>>, error |-> e]
Pending == [status |-> "pending", value |-> <<>>, error |-> "none"]

\* --------------------------------------------------- ring-counter matcher
\* char_indexes_in_subsequence[char]: the indices of subsequence holding char
\* (a defaultdict: an absent char maps to no index)
char_indexes_in_subsequence(subsequence, char) ==
    {j \in 0..(Len(subsequence) - 1) : subsequence[j + 1] = char}

\* for subseq_index in idxs: candidates[subseq_index] += 1
\* (every index the two loops pass is below len(candidates): the first loop
\* filters idx <= index, the second runs on a full ring)
IncrementCandidates(candidates, idxs) ==
    [p \in 1..Len(candidates) |->
        IF (p - 1) \in idxs THEN candidates[p] + 1 ELSE candidates[p]]

\* deque.appendleft(0) on a deque of the given maxlen
AppendLeftZero(candidates, maxlen) ==
    LET c == <<0>> \o candidates
    IN  IF Len(c) > maxlen THEN SubSeq(c, 1, maxlen) ELSE c

\* deque.rotate(1): the rightmost item becomes the leftmost
Rotate1(candidates) ==
    IF candidates = <<>> THEN candidates
    ELSE <<candidates[Len(candidates)]>> \o SubSeq(candidates, 1, Len(candidates) - 1)

\* the generator's frame before the first loop: candidates = deque([0], maxlen=L)
\* (n_substitutions is unbound until the second loop assigns it: -1 here)
LpFrame0 == [index |-> 0, candidates |-> <<0>>, n_substitutions |-> 0 - 1, out |-> <<>>]

\* one iteration of the first loop (the first L-1 items of the sequence)
LpWarmupIter(subsequence, sequence, fr) ==
    LET char == sequence[fr.index + 1]
        idxs == {idx \in char_indexes_in_subsequence(subsequence, char) : idx <= fr.index}
    IN  [index |-> fr.index + 1,
         candidates |-> AppendLeftZero(IncrementCandidates(fr.candidates, idxs),
                                       Len(subsequence)),
         n_substitutions |-> fr.n_substitutions,
         out |-> fr.out]

\* variant: the second loop with "<" for "<=" in the budget test
LpSteadyIter_strict(subsequence, sequence, max_substitutions, fr) ==
    LET char == sequence[fr.index + 1]
        rotated == Rotate1(IncrementCandidates(fr.candidates,
                              char_indexes_in_subsequence(subsequence, char)))
        n_substitutions == Len(subsequence) - rotated[1]
    IN  [index |-> fr.index + 1,
         candidates |-> [rotated EXCEPT ![1] = 0],
         n_substitutions |-> n_substitutions,
         out |-> IF n_substitutions < max_substitutions
                 THEN Append(fr.out, Match(fr.index - (Len(subsequence) - 1),
                                           fr.index + 1, n_substitutions))
                 ELSE fr.out]

\* variant: the second loop without "candidates[0] = 0"
LpSteadyIter_noreset(subsequence, sequence, max_substitutions, fr) ==
    LET char == sequence[fr.index + 1]
        rotated == Rotate1(IncrementCandidates(fr.candidates,
                              char_indexes_in_subsequence(subsequence, char)))
        n_substitutions == Len(subsequence) - rotated[1]
    IN  [index |-> fr.index + 1,
         candidates |-> rotated,
         n_substitutions |-> n_substitutions,
         out |-> IF n_substitutions <= max_substitutions
                 THEN Append(fr.out, Match(fr.index - (Len(subsequence) - 1),
                                           fr.index + 1, n_substitutions))
                 ELSE fr.out]

\* one iteration of the second loop (from the L-th item onwards)
LpSteadyIter(subsequence, sequence, max_substitutions, fr) ==
    LET char == sequence[fr.index + 1]
        rotated == Rotate1(IncrementCandidates(fr.candidates,
                              char_indexes_in_subsequence(subsequence, char)))
        n_substitutions == Len(subsequence) - rotated[1]
    IN  [index |-> fr.index + 1,
         candidates |-> [rotated EXCEPT ![1] = 0],
         n_substitutions |-> n_substitutions,
         out |-> IF n_substitutions <= max_substitutions
                 THEN Append(fr.out, Match(fr.index - (Len(subsequence) - 1),
                                           fr.index + 1, n_substitutions))
                 ELSE fr.out]

\* islice(sequence_enum_iter, L - 1) feeds the first loop, the rest the second
LpInWarmup(subsequence, fr) == fr.index < Len(subsequence) - 1

RECURSIVE LpLoop(_, _, _, _)
LpLoop(subsequence, sequence, max_substitutions, fr) ==
    IF fr.index >= Len(sequence) THEN fr
    ELSE IF LpInWarmup(subsequence, fr)
         THEN LpLoop(subsequence, sequence, max_substitutions,
                     LpWarmupIter(subsequence, sequence, fr))
         ELSE LpLoop(subsequence, sequence, max_substitutions,
                     LpSteadyIter(subsequence, sequence, max_substitutions, fr))

\* the generator consumed to exhaustion
find_near_matches_substitutions_linear_programming(subsequence, sequence, max_substitutions) ==
    IF subsequence = <<>> THEN Raised("EmptySubsequence")
    ELSE Returned(LpLoop(subsequence, sequence, max_substitutions, LpFrame0).out)

\* ------------------------------------------------- ngram partition matcher
\* ngram_len = subseq_len // (max_substitutions + 1), defined when K + 1 # 0
NgramLen(subsequence, max_substitutions) ==
    PyFloorDiv(Len(subsequence), max_substitutions + 1)

\* variant: range(0, len(subsequence) - ngram_len, ngram_len), the "+ 1" lost
NgramStarts_offbyone(subsequence, ngram_len) ==
    PyRange(0, Len(subsequence) - ngram_len, ngram_len)

\* range(0, len(subsequence) - ngram_len + 1, ngram_len)
NgramStarts(subsequence, ngram_len) ==
    PyRange(0, Len(subsequence) - ngram_len + 1, ngram_len)

\* variant: dist counts the mismatches before the fragment only
NgramVerify_beforeonly(subsequence, sequence, max_substitutions, ngram_start, ngram_len, index) ==
    LET subseq_len == Len(subsequence)
        ngram_end == ngram_start + ngram_len
        subseq_before == PySlice(subsequence, 0, ngram_start)
        subseq_after == PySlice(subsequence, ngram_end, subseq_len)
        seq_before == PySlice(sequence, index - ngram_start, index)
        seq_after == PySlice(sequence, index + ngram_len, index - ngram_start + subseq_len)
        n_before == IF subseq_before # seq_before
                    THEN ZipMismatches(seq_before, subseq_before) ELSE 0
        n_total == IF subseq_after # seq_after
                   THEN n_before + ZipMismatches(seq_after, subseq_after) ELSE n_before
    IN  IF subseq_before # seq_before /\ n_before > max_substitutions THEN <<>>
        ELSE IF subseq_after # seq_after /\ n_before = max_substitutions THEN <<>>
        ELSE IF subseq_after # seq_after /\ n_total > max_substitutions THEN <<>>
        ELSE <<Match(index - ngram_start, index - ngram_start + subseq_len, n_before)>>

\* variant: a hit whose before-part already used the whole budget is dropped
\* even when the after-parts are equal
NgramVerify_dropatbudget(subsequence, sequence, max_substitutions, ngram_start, ngram_len, index) ==
    LET subseq_len == Len(subsequence)
        ngram_end == ngram_start + ngram_len
        subseq_before == PySlice(subsequence, 0, ngram_start)
        subseq_after == PySlice(subsequence, ngram_end, subseq_len)
        seq_before == PySlice(sequence, index - ngram_start, index)
        seq_after == PySlice(sequence, index + ngram_len, index - ngram_start + subseq_len)
        n_before == IF subseq_before # seq_before
                    THEN ZipMismatches(seq_before, subseq_before) ELSE 0
        n_total == IF subseq_after # seq_after
                   THEN n_before + ZipMismatches(seq_after, subseq_after) ELSE n_before
    IN  IF subseq_before # seq_before /\ n_before > max_substitutions THEN <<>>
        ELSE IF n_before = max_substitutions THEN <<>>
        ELSE IF subseq_after # seq_after /\ n_total > max_substitutions THEN <<>>
        ELSE <<Match(index - ngram_start, index - ngram_start + subseq_len, n_total)>>

\* the body of the inner loop for one hit of search_exact: the Match it
\* yields, or nothing when it continues
NgramVerify(subsequence, sequence, max_substitutions, ngram_start, ngram_len, index) ==
    LET subseq_len == Len(subsequence)
        ngram_end == ngram_start + ngram_len
        subseq_before == PySlice(subsequence, 0, ngram_start)
        subseq_after == PySlice(subsequence, ngram_end, subseq_len)
        seq_before == PySlice(sequence, index - ngram_start, index)
        seq_after == PySlice(sequence, index + ngram_len, index - ngram_start + subseq_len)
        n_before == IF subseq_before # seq_before
                    THEN ZipMismatches(seq_before, subseq_before) ELSE 0
        n_total == IF subseq_after # seq_after
                   THEN n_before + ZipMismatches(seq_after, subseq_after) ELSE n_before
    IN  IF subseq_before # seq_before /\ n_before > max_substitutions THEN <<>>
        ELSE IF subseq_after # seq_after /\ n_before = max_substitutions THEN <<>>
        ELSE IF subseq_after # seq_after /\ n_total > max_substitutions THEN <<>>
        ELSE <<Match(index - ngram_start, index - ngram_start + subseq_len, n_total)>>

RECURSIVE NgramVerifyAll(_, _, _, _, _, _)
NgramVerifyAll(subsequence, sequence, max_substitutions, ngram_start, ngram_len, hits) ==
    IF hits = <<>> THEN <<>>
    ELSE NgramVerify(subsequence, sequence, max_substitutions,
                     ngram_start, ngram_len, Head(hits))
         \o NgramVerifyAll(subsequence, sequence, max_substitutions,
                           ngram_start, ngram_len, Tail(hits))

\* everything one fragment yields
NgramFragment(subsequence, sequence, max_substitutions, ngram_start, ngram_len) ==
    NgramVerifyAll(subsequence, sequence, max_substitutions, ngram_start, ngram_len,
        search_exact(PySlice(subsequence, ngram_start, ngram_start + ngram_len),
                     sequence, ngram_start,
                     Len(sequence) - (Len(subsequence) - (ngram_start + ngram_len))))

RECURSIVE NgramFragments(_, _, _, _, _)
NgramFragments(subsequence, sequence, max_substitutions, ngram_len, starts) ==
    IF starts = <<>> THEN <<>>
    ELSE NgramFragment(subsequence, sequence, max_substitutions, Head(starts), ngram_len)
         \o NgramFragments(subsequence, sequence, max_substitutions, ngram_len, Tail(starts))

\* the raw generator consumed to exhaustion
_find_near_matches_substitutions_ngrams(subsequence, sequence, max_substitutions) ==
    IF max_substitutions + 1 = 0 THEN Raised("ZeroDivisionError")
    ELSE IF NgramLen(subsequence, max_substitutions) = 0 THEN Raised("BudgetExceedsLength")
    ELSE Returned(NgramFragments(subsequence, sequence, max_substitutions,
                     NgramLen(subsequence, max_substitutions),
                     NgramStarts(subsequence, NgramLen(subsequence, max_substitutions))))

\* if match.start not in match_starts: add it, keep the match
RECURSIVE DedupByStart(_, _)
DedupByStart(raw, match_starts) ==
    IF raw = <<>> THEN <<>>
    ELSE IF Head(raw).start \in match_starts
         THEN DedupByStart(Tail(raw), match_starts)
         ELSE <<Head(raw)>> \o DedupByStart(Tail(raw), match_starts \cup {Head(raw).start})

\* sorted(matches, key=lambda match: match.start): a stable sort
RECURSIVE InsertByStart(_, _)
InsertByStart(sorted, m) ==
    IF sorted = <<>> THEN <<m>>
    ELSE IF m.start < Head(sorted).start THEN <<m>> \o sorted
    ELSE <<Head(sorted)>> \o InsertByStart(Tail(sorted), m)

\* variant: the matches left in the order they were found
SortedByStart_unsorted(matches) == matches

RECURSIVE SortedByStart(_)
SortedByStart(matches) ==
    IF matches = <<>> THEN <<>>
    ELSE InsertByStart(SortedByStart(SubSeq(matches, 1, Len(matches) - 1)),
                       matches[Len(matches)])

find_near_matches_substitutions_ngrams(subsequence, sequence, max_substitutions) ==
    LET raw == _find_near_matches_substitutions_ngrams(subsequence, sequence, max_substitutions)
    IN  IF raw.status = "raised" THEN raw
        ELSE Returned(SortedByStart(DedupByStart(raw.value, {})))

\* variant: "return True" after the loop as well
has_near_match_substitutions_ngrams_alwaystrue(subsequence, sequence, max_substitutions) ==
    LET raw == _find_near_matches_substitutions_ngrams(subsequence, sequence, max_substitutions)
    IN  IF raw.status = "raised" THEN raw
        ELSE Returned(TRUE)

\* for match in <raw generator>: return True -- else return False
has_near_match_substitutions_ngrams(subsequence, sequence, max_substitutions) ==
    LET raw == _find_near_matches_substitutions_ngrams(subsequence, sequence, max_substitutions)
    IN  IF raw.status = "raised" THEN raw
        ELSE Returned(raw.value # <<>>)

\* -------------------------------------------------------------- dispatcher
\* variant: Match(start_index, len(subsequence), 0), the end not offset
RECURSIVE WrapExact_endnotoffset(_, _)
WrapExact_endnotoffset(starts, n) ==
    IF starts = <<>> THEN <<>>
    ELSE <<Match(Head(starts), n, 0)>> \o WrapExact_endnotoffset(Tail(starts), n)

RECURSIVE WrapExact(_, _)
WrapExact(starts, n) ==
    IF starts = <<>> THEN <<>>
    ELSE <<Match(Head(starts), Head(starts) + n, 0)>> \o WrapExact(Tail(starts), n)

DispatchPath(subsequence, max_substitutions) ==
    IF max_substitutions = 0 THEN "exact"
    ELSE IF PyFloorDiv(Len(subsequence), max_substitutions + 1) >= 3 THEN "ngrams"
    ELSE "linear_programming"

find_near_matches_substitutions(subsequence, sequence, max_substitutions) ==
    IF subsequence = <<>> THEN Raised("EmptySubsequence")
    ELSE IF max_substitutions < 0 THEN Raised("NegativeBudget")
    ELSE IF DispatchPath(subsequence, max_substitutions) = "exact"
         THEN Returned(WrapExact(search_exact(subsequence, sequence, 0, Len(sequence)),
                                 Len(subsequence)))
    ELSE IF DispatchPath(subsequence, max_substitutions) = "ngrams"
         THEN find_near_matches_substitutions_ngrams(subsequence, sequence, max_substitutions)
    ELSE find_near_matches_substitutions_linear_programming(subsequence, sequence,
                                                            max_substitutions)

\* ------------------------------------------------------------------- state
VARIABLES
    subsequence,        \* the arguments of the call
    sequence,
    max_substitutions,
    called,             \* the entry point called, "none" before the call
    outcome,            \* what the call returned or raised
    ngram_starts,       \* the values ngram_start took in the fragment loop
    lp_pc,              \* the ring-counter generator: where it is suspended
    lp                  \* ... and its frame (index, candidates, matches yielded)

vars == <<subsequence, sequence, max_substitutions, called, outcome,
          ngram_starts, lp_pc, lp>>

Budgets == (0 - MaxNeg)..MaxK

Init ==
    /\ subsequence \in SeqsUpTo(MaxSubLen)
    /\ sequence \in SeqsUpTo(MaxSeqLen)
    /\ max_substitutions \in Budgets
    /\ called = "none"
    /\ outcome = Pending
    /\ ngram_starts = <<>>
    /\ lp_pc = "unused"
    /\ lp = LpFrame0

\* the fragment starts a complete enumeration goes through
StartsVisited(subseq, k) ==
    IF k + 1 = 0 \/ NgramLen(subseq, k) = 0 THEN <<>>
    ELSE NgramStarts(subseq, NgramLen(subseq, k))

\* the fragment starts gone through when the caller stops at the first Match
RECURSIVE StartsUntilFirstYield(_, _, _, _, _)
StartsUntilFirstYield(subseq, seq, k, ngram_len, starts) ==
    IF starts = <<>> THEN <<>>
    ELSE IF NgramFragment(subseq, seq, k, Head(starts), ngram_len) # <<>>
         THEN <<Head(starts)>>
         ELSE <<Head(starts)>>
              \o StartsUntilFirstYield(subseq, seq, k, ngram_len, Tail(starts))

Call_find_near_matches_substitutions ==
    /\ called = "none"
    /\ called' = "find_near_matches_substitutions"
    /\ outcome' = find_near_matches_substitutions(subsequence, sequence, max_substitutions)
    /\ ngram_starts' =
          IF subsequence # <<>> /\ max_substitutions > 0
             /\ DispatchPath(subsequence, max_substitutions) = "ngrams"
          THEN StartsVisited(subsequence, max_substitutions) ELSE <<>>
    /\ UNCHANGED <<subsequence, sequence, max_substitutions, lp_pc, lp>>

Call_find_near_matches_substitutions_ngrams ==
    /\ called = "none"
    /\ called' = "find_near_matches_substitutions_ngrams"
    /\ outcome' = find_near_matches_substitutions_ngrams(subsequence, sequence,
                                                         max_substitutions)
    /\ ngram_starts' = StartsVisited(subsequence, max_substitutions)
    /\ UNCHANGED <<subsequence, sequence, max_substitutions, lp_pc, lp>>

Call_find_near_matches_substitutions_linear_programming ==
    /\ called = "none"
    /\ called' = "find_near_matches_substitutions_linear_programming"
    /\ outcome' = find_near_matches_substitutions_linear_programming(
                      subsequence, sequence, max_substitutions)
    /\ UNCHANGED <<subsequence, sequence, max_substitutions, ngram_starts, lp_pc, lp>>

Call_has_near_match_substitutions_ngrams ==
    /\ called = "none"
    /\ called' = "has_near_match_substitutions_ngrams"
    /\ outcome' = has_near_match_substitutions_ngrams(subsequence, sequence,
                                                      max_substitutions)
    /\ ngram_starts' = StartsUntilFirstYield(subsequence, sequence, max_substitutions,
                          NgramLen(subsequence, max_substitutions),
                          StartsVisited(subsequence, max_substitutions))
    /\ UNCHANGED <<subsequence, sequence, max_substitutions, lp_pc, lp>>

Next ==
    \/ Call_find_near_matches_substitutions
    \/ Call_find_near_matches_substitutions_ngrams
    \/ Call_find_near_matches_substitutions_linear_programming
    \/ Call_has_near_match_substitutions_ngrams

Spec == Init /\ [][Next]_vars

\* --------------- the list-returning entry points on longer subsequences,
\* long enough for the dispatcher to take its ngram path
InitLong ==
    /\ subsequence \in SeqsUpTo(LongMaxSubLen)
    /\ sequence \in SeqsUpTo(LongMaxSeqLen)
    /\ max_substitutions \in Budgets
    /\ called = "none"
    /\ outcome = Pending
    /\ ngram_starts = <<>>
    /\ lp_pc = "unused"
    /\ lp = LpFrame0

NextLong ==
    \/ Call_find_near_matches_substitutions
    \/ Call_find_near_matches_substitutions_ngrams
    \/ Call_find_near_matches_substitutions_linear_programming

SpecLong == InitLong /\ [][NextLong]_vars

\* ------------------------------- the ring-counter generator, step by step
\* Calling the generator function runs none of its body: the generator is
\* created, and the body starts when the caller asks for the first item.
InitLP ==
    /\ subsequence \in SeqsUpTo(LpMaxSubLen)
    /\ sequence \in SeqsUpTo(LpMaxSeqLen)
    /\ max_substitutions \in Budgets
    /\ called = "find_near_matches_substitutions_linear_programming"
    /\ outcome = Pending
    /\ ngram_starts = <<>>
    /\ lp_pc = "created"
    /\ lp = LpFrame0

\* the body up to the first loop: the emptiness check and the set-up
LpEnter ==
    /\ lp_pc = "created"
    /\ IF subsequence = <<>>
       THEN lp_pc' = "raised" /\ outcome' = Raised("EmptySubsequence")
       ELSE lp_pc' = "running" /\ outcome' = outcome
    /\ lp' = LpFrame0
    /\ UNCHANGED <<subsequence, sequence, max_substitutions, called, ngram_starts>>

LpWarmupStep ==
    /\ lp_pc = "running"
    /\ lp.index < Len(sequence)
    /\ LpInWarmup(subsequence, lp)
    /\ lp' = LpWarmupIter(subsequence, sequence, lp)
    /\ UNCHANGED <<subsequence, sequence, max_substitutions, called, outcome,
                   ngram_starts, lp_pc>>

LpSteadyStep ==
    /\ lp_pc = "running"
    /\ lp.index < Len(sequence)
    /\ ~LpInWarmup(subsequence, lp)
    /\ lp' = LpSteadyIter(subsequence, sequence, max_substitutions, lp)
    /\ UNCHANGED <<subsequence, sequence, max_substitutions, called, outcome,
                   ngram_starts, lp_pc>>

\* the sequence is exhausted: the generator returns
LpExhaust ==
    /\ lp_pc = "running"
    /\ lp.index >= Len(sequence)
    /\ lp_pc' = "exhausted"
    /\ outcome' = Returned(lp.out)
    /\ UNCHANGED <<subsequence, sequence, max_substitutions, called, ngram_starts, lp>>

NextLP == LpEnter \/ LpWarmupStep \/ LpSteadyStep \/ LpExhaust

SpecLP == InitLP /\ [][NextLP]_vars

\* ------------------------------------------------------------ reference
\* the elementwise mismatch count between S and T[s : s + len(S)]
Mismatches(S, T, s) == Cardinality({j \in 1..Len(S) : T[s + j] # S[j]})

\* the window starts of T whose mismatch count is at most K
NearStarts(S, T, K) ==
    {s \in 0..(Len(T) - Len(S)) : Mismatches(S, T, s) <= K}

StartsOf(ms) == {ms[k].start : k \in 1..Len(ms)}
StartDistPairs(ms) == {<<ms[k].start, ms[k].dist>> : k \in 1..Len(ms)}

ListCalls == {"find_near_matches_substitutions",
              "find_near_matches_substitutions_ngrams",
              "find_near_matches_substitutions_linear_programming"}

\* ------------------------------------------------------------------ claims

C2_MatchesAreTrue ==
    (called \in ListCalls /\ outcome.status = "returned")
    => \A k \in 1..Len(outcome.value) :
          LET m == outcome.value[k]
          IN  /\ 0 <= m.start /\ m.start <= m.end /\ m.end <= Len(sequence)
              /\ m.end - m.start = Len(subsequence)
              /\ m.dist = Mismatches(subsequence, sequence, m.start)
              /\ m.dist <= max_substitutions

C2_Witness ==
    /\ called = "find_near_matches_substitutions_ngrams"
    /\ outcome.status = "returned"
    /\ \E k \in 1..Len(outcome.value) :
          /\ outcome.value[k].dist = 1
          /\ outcome.value[k].start > 0
          /\ outcome.value[k].end < Len(sequence)

\* what the other matcher does with the arguments of the call made
OtherMatcher ==
    IF called = "find_near_matches_substitutions_linear_programming"
    THEN find_near_matches_substitutions_ngrams(subsequence, sequence, max_substitutions)
    ELSE find_near_matches_substitutions_linear_programming(subsequence, sequence,
                                                            max_substitutions)

MatcherCalls == {"find_near_matches_substitutions_linear_programming",
                 "find_near_matches_substitutions_ngrams"}

\* C3 as stated: for a non-empty subsequence and K >= 0 the ngram matcher and
\* the ring-counter matcher produce the same set of (start, dist) pairs.
C3_AsStated ==
    (called \in MatcherCalls /\ subsequence # <<>> /\ max_substitutions >= 0)
    => LET other == OtherMatcher
       IN  /\ outcome.status = "returned"
           /\ other.status = "returned"
           /\ StartDistPairs(other.value) = StartDistPairs(outcome.value)

\* C3 amended: the two matchers produce the same set of (start, dist) pairs
\* when moreover len(S) > K; when len(S) <= K the ngram matcher raises
\* BudgetExceedsLength while the ring-counter matcher returns.
C3_SamePairs ==
    (called \in MatcherCalls /\ subsequence # <<>> /\ max_substitutions >= 0)
    => LET other == OtherMatcher
       IN  IF Len(subsequence) > max_substitutions
           THEN /\ outcome.status = "returned"
                /\ other.status = "returned"
                /\ StartDistPairs(other.value) = StartDistPairs(outcome.value)
           ELSE IF called = "find_near_matches_substitutions_ngrams"
                THEN outcome = Raised("BudgetExceedsLength")
                     /\ other.status = "returned"
                ELSE outcome.status = "returned"
                     /\ other = Raised("BudgetExceedsLength")

\* the ngram matcher returning two windows, one of them with a substitution
C3_Witness ==
    /\ called = "find_near_matches_substitutions_ngrams"
    /\ Len(subsequence) > max_substitutions
    /\ max_substitutions >= 1
    /\ outcome.status = "returned"
    /\ Len(outcome.value) >= 2
    /\ \E k \in 1..Len(outcome.value) : outcome.value[k].dist = 1

\* C4: with K = 0 and a non-empty subsequence the dispatcher returns exactly
\* one Match(s, s + len(S), 0) for each index s the exact-search primitive
\* produces for S in T, in the primitive's order, and nothing else.
C4_ExactPath ==
    (called = "find_near_matches_substitutions"
        /\ subsequence # <<>> /\ max_substitutions = 0)
    => LET hits == search_exact(subsequence, sequence, 0, Len(sequence))
       IN  /\ outcome.status = "returned"
           /\ Len(outcome.value) = Len(hits)
           /\ \A k \in 1..Len(hits) :
                 outcome.value[k] = Match(hits[k], hits[k] + Len(subsequence), 0)

\* overlapping occurrences
C4_Witness ==
    /\ called = "find_near_matches_substitutions"
    /\ max_substitutions = 0
    /\ outcome.status = "returned"
    /\ Len(subsequence) >= 2
    /\ \E k \in 1..(Len(outcome.value) - 1) :
          outcome.value[k + 1].start < outcome.value[k].end

\* C5: the list returned by the dispatcher and by the ngram matcher has
\* strictly increasing starts (sorted by start, no start twice).
C5_StrictlyIncreasing ==
    (called \in {"find_near_matches_substitutions",
                 "find_near_matches_substitutions_ngrams"}
        /\ outcome.status = "returned")
    => \A k \in 1..(Len(outcome.value) - 1) :
          outcome.value[k].start < outcome.value[k + 1].start

\* the raw enumeration yields a window twice and yields out of order
C5_Witness ==
    /\ called = "find_near_matches_substitutions_ngrams"
    /\ outcome.status = "returned"
    /\ LET raw == _find_near_matches_substitutions_ngrams(subsequence, sequence,
                                                          max_substitutions).value
       IN  /\ Len(raw) > Len(outcome.value)
           /\ \E k \in 1..(Len(raw) - 1) : raw[k].start > raw[k + 1].start

\* C6: the existence probe returns true exactly when the ngram matcher's match
\* list is non-empty (and raises exactly when it raises); when it returns true
\* it has stopped in the first fragment that yields a Match.
C6_ProbeAgrees ==
    (called = "has_near_match_substitutions_ngrams")
    => LET ng == find_near_matches_substitutions_ngrams(subsequence, sequence,
                                                        max_substitutions)
       IN  /\ outcome.status = ng.status
           /\ outcome.status = "raised" => outcome.error = ng.error
           /\ outcome.status = "returned" =>
                 /\ outcome.value = (ng.value # <<>>)
                 /\ \A k \in 1..(Len(ngram_starts) - 1) :
                       NgramFragment(subsequence, sequence, max_substitutions,
                           ngram_starts[k],
                           NgramLen(subsequence, max_substitutions)) = <<>>
                 /\ outcome.value = TRUE =>
                       /\ ngram_starts # <<>>
                       /\ NgramFragment(subsequence, sequence, max_substitutions,
                              ngram_starts[Len(ngram_starts)],
                              NgramLen(subsequence, max_substitutions)) # <<>>
                 /\ outcome.value = FALSE =>
                       ngram_starts = StartsVisited(subsequence, max_substitutions)

\* true, found in a fragment after the first, with fragments left unvisited
C6_Witness ==
    /\ called = "has_near_match_substitutions_ngrams"
    /\ outcome.status = "returned"
    /\ outcome.value = TRUE
    /\ Len(ngram_starts) >= 2
    /\ Len(ngram_starts) < Len(StartsVisited(subsequence, max_substitutions))

\* C7 as stated: every entry point called with an empty subsequence raises
\* EmptySubsequence.
C7_AsStated ==
    (called # "none" /\ subsequence = <<>>)
    => outcome = Raised("EmptySubsequence")

\* C8 as stated: no entry point returns for a negative budget; with a
\* non-empty subsequence the error is NegativeBudget.
C8_AsStated ==
    (called # "none" /\ max_substitutions < 0)
    => /\ outcome.status = "raised"
       /\ subsequence # <<>> => outcome.error = "NegativeBudget"

\* C9 as stated: with g >= 1 the fragment loop carves at most K+1 fragments,
\* and exactly K+1 when len(S) is an exact multiple of g.
C9_AsStated ==
    (called = "find_near_matches_substitutions_ngrams"
        /\ max_substitutions >= 0
        /\ NgramLen(subsequence, max_substitutions) >= 1)
    => /\ Len(ngram_starts) <= max_substitutions + 1
       /\ Len(subsequence) % NgramLen(subsequence, max_substitutions) = 0
             => Len(ngram_starts) = max_substitutions + 1

\* C9 amended: with g >= 1 the fragment loop carves the fragments starting at
\* 0, g, 2g, ... while f + g <= len(S): len(S) // g of them, which is at least
\* K+1, and exactly K+1 when len(S) is an exact multiple of K+1.
C9_FragmentCount ==
    (called = "find_near_matches_substitutions_ngrams"
        /\ max_substitutions >= 0
        /\ NgramLen(subsequence, max_substitutions) >= 1)
    => LET g == NgramLen(subsequence, max_substitutions)
       IN  /\ \A k \in 1..Len(ngram_starts) :
                 /\ ngram_starts[k] = (k - 1) * g
                 /\ ngram_starts[k] + g <= Len(subsequence)
           /\ Len(ngram_starts) = Len(subsequence) \div g
           /\ Len(ngram_starts) >= max_substitutions + 1
           /\ Len(subsequence) % (max_substitutions + 1) = 0
                 => Len(ngram_starts) = max_substitutions + 1

\* more than K+1 fragments, and a tail left over
C9_Witness ==
    /\ called = "find_near_matches_substitutions_ngrams"
    /\ max_substitutions >= 1
    /\ NgramLen(subsequence, max_substitutions) >= 2
    /\ Len(ngram_starts) = max_substitutions + 1
    /\ Len(subsequence) % NgramLen(subsequence, max_substitutions) # 0

\* the number of j < p with T[s + j] = S[j] (0-based), for the window at s
PrefixMatches(S, T, s, p) == Cardinality({j \in 0..(p - 1) : T[s + j + 1] = S[j + 1]})

\* C10: while the generator runs, before sequence index i is processed the
\* ring has min(i+1, L) counters and the one at position p counts the j < p
\* with T[i-p+j] = S[j] (so position 0 is 0: it was reset after being read);
\* what the second loop last read is L minus the matches of the window that
\* started L items before; nothing is yielded during the first L-1 items.
C10_RingInvariant ==
    (lp_pc = "running")
    => LET L == Len(subsequence)
           i == lp.index
       IN  /\ i <= Len(sequence)
           /\ Len(lp.candidates) = Min2(i + 1, L)
           /\ \A p \in 0..(Min2(i + 1, L) - 1) :
                 lp.candidates[p + 1] = PrefixMatches(subsequence, sequence, i - p, p)
           /\ lp.candidates[1] = 0
           /\ i >= L => lp.n_substitutions = L - PrefixMatches(subsequence, sequence, i - L, L)
           /\ i <= L - 1 => lp.out = <<>>
           /\ \A k \in 1..Len(lp.out) : lp.out[k].start <= i - L

\* in the second loop, past a window that matched with one substitution
C10_Witness ==
    /\ lp_pc = "running"
    /\ Len(subsequence) >= 3
    /\ lp.index >= Len(subsequence) + 1
    /\ lp.index < Len(sequence)
    /\ \E k \in 1..Len(lp.out) : lp.out[k].dist = 1
    /\ \E p \in 1..Len(lp.candidates) : lp.candidates[p] >= 2

====
